---- MODULE Spec2Model ----
(***************************************************************************)
(* The usecase layer of the parent-auth service (src/unnamed/part_000):    *)
(* SendCertifyCodeToPhone, CertifyPhoneWithCode, SignUpParent and          *)
(* LoginParentAuth, each one transaction over the phone-certify table and  *)
(* the parent-auth table.  A handler runs as a few steps, one per          *)
(* collaborator call; the outcome of every collaborator call is an input.  *)
(***************************************************************************)
EXTENDS Naturals, FiniteSets, Sequences, TLC

\* ------------------------------------------------------------------------
\* Bounds and input domains
\* ------------------------------------------------------------------------

\* number of usecase calls started in one behaviour
MaxOps == 5

\* call slots: a request being served by the usecase
Calls == {1, 2}

Phones == {"01011112222", "01033334444"}
CertifyCodes == {111111, 222222}
IDs == {"ida", "idb"}
PWs == {"pw1", "pw2"}
UUIDs == {"u1", "u2"}

\* ------------------------------------------------------------------------
\* domain values
\* ------------------------------------------------------------------------

\* sql.NullBool
NullBoolUnset == [Bool |-> FALSE, Valid |-> FALSE]
NullBoolFalse == [Bool |-> FALSE, Valid |-> TRUE]
NullBoolTrue == [Bool |-> TRUE, Valid |-> TRUE]

\* sql.NullString
NullStringUnset == [String |-> "", Valid |-> FALSE]
NullStringOf(s) == [String |-> s, Valid |-> TRUE]

\* domain.ParentPhoneCertify; exists = FALSE stands for "no row"
NoRow ==
  [exists |-> FALSE, CertifyCode |-> 0, Certified |-> NullBoolUnset,
   ParentUUID |-> NullStringUnset]

\* domain.ParentPhoneCertify{PhoneNumber: pn}: every other field zero
NewParentPhoneCertify ==
  [exists |-> TRUE, CertifyCode |-> 0, Certified |-> NullBoolUnset,
   ParentUUID |-> NullStringUnset]

Rows ==
  [exists : {TRUE}, CertifyCode : CertifyCodes,
   Certified : {NullBoolUnset, NullBoolFalse, NullBoolTrue},
   ParentUUID : {NullStringUnset} \cup {NullStringOf(u) : u \in UUIDs}]

\* domain.ParentAuth before it is filled in
NoAuth == [ID |-> "", PW |-> "", UUID |-> ""]

\* hashHandler.GenerateHashWithMinSalt on success: a salted hash, never the input
GenerateHashWithMinSalt(pw) ==
  CASE pw = "pw1" -> "$2a$04$hash1"
    [] pw = "pw2" -> "$2a$04$hash2"
    [] OTHER -> "$2a$04$hash0"

\* hashHandler.CompareHashAndPW: "nil" when hash is the hash of pw
CompareHashAndPW(hash, pw) ==
  IF hash = GenerateHashWithMinSalt(pw) THEN "nil" ELSE "mismatch"

\* jwtHandler.GenerateUUIDJWT on success: a non-empty token bound to the uuid
GenerateUUIDJWT(uuid) ==
  CASE uuid = "u1" -> "jwt.u1"
    [] uuid = "u2" -> "jwt.u2"
    [] OTHER -> "jwt.u"

\* ------------------------------------------------------------------------
\* State
\* ------------------------------------------------------------------------

VARIABLES
  phoneTable, \* committed rows of the phone-certify table, by phone number
  authTable,  \* committed rows of the parent-auth table
  call,       \* per call slot: position, arguments, locals, results
  signedUp,   \* history: <<phone number, login ID>> of every committed sign-up
  lastOK,     \* history: per phone number, the last of send and certify that
              \* returned nil ("none" before the first)
  ops         \* calls started so far

vars == <<phoneTable, authTable, signedUp, lastOK, call, ops>>

IdleCall ==
  [op |-> "none", pc |-> "idle",
   pn |-> "", code |-> 0, id |-> "", pw |-> "",
   tx |-> FALSE, got |-> "", read |-> NoRow, gen |-> 0,
   ppc |-> NoRow, pa |-> NoAuth, cmp |-> "",
   wr |-> "none", wrote |-> "", sms |-> "",
   hash |-> "", avail |-> "", random |-> "", stored |-> "", jwt |-> "",
   err |-> "nil", reason |-> "", prev |-> "",
   commit |-> "", left |-> NoRow, raced |-> FALSE,
   uuid |-> "", token |-> "",
   nCommit |-> 0, nRollback |-> 0, nStore |-> 0, nUpdate |-> 0,
   nSMS |-> 0, smsCode |-> 0,
   nHash |-> 0, nGetUUID |-> 0, nAuthStore |-> 0, nCompare |-> 0, nJWT |-> 0]

Init ==
  /\ phoneTable = [p \in Phones |-> NoRow]
  /\ authTable = {}
  /\ signedUp = {}
  /\ lastOK = [p \in Phones |-> "none"]
  /\ call = [c \in Calls |-> IdleCall]
  /\ ops = 0

\* a table in which one number is already bound to a parent account: the
\* ParentUUID column is written outside the usecase layer
BoundPhone == "01011112222"
BoundAuth == [ID |-> "ida", PW |-> GenerateHashWithMinSalt("pw1"), UUID |-> "u1"]

InitBound ==
  /\ \E row \in Rows :
       /\ row.ParentUUID = NullStringOf(BoundAuth.UUID)
       /\ phoneTable = [p \in Phones |-> IF p = BoundPhone THEN row ELSE NoRow]
       /\ lastOK = [p \in Phones |->
                     IF p # BoundPhone THEN "none"
                     ELSE IF row.Certified.Bool THEN "certify" ELSE "send"]
  /\ authTable = {BoundAuth}
  /\ signedUp = {<<BoundPhone, BoundAuth.ID>>}
  /\ call = [c \in Calls |-> IdleCall]
  /\ ops = 0

Free(c) == call[c].pc \in {"idle", "done"}

\* one request at a time (slots are interchangeable, the first is used)
Sequential(c) == c = 1 /\ \A d \in Calls : Free(d)

\* a BeginTx whose failure is returned as an internalServerErr
BeginTxClassified(c, op, ok, args) ==
  /\ Free(c)
  /\ ops < MaxOps
  /\ ops' = ops + 1
  /\ call' = [call EXCEPT ![c] =
       [IdleCall EXCEPT
          !.op = op, !.pn = args.pn, !.code = args.code,
          !.id = args.id, !.pw = args.pw,
          !.tx = ok,
          !.pc = IF ok THEN "get" ELSE "done",
          !.err = IF ok THEN "nil" ELSE "internalServerErr"]]
  /\ UNCHANGED <<phoneTable, authTable, signedUp, lastOK>>

\* txHandler.BeginTx at the head of every handler
BeginTx(c, op, ok, args) ==
  /\ Free(c)
  /\ ops < MaxOps
  /\ ops' = ops + 1
  /\ call' = [call EXCEPT ![c] =
       [IdleCall EXCEPT
          !.op = op, !.pn = args.pn, !.code = args.code,
          !.id = args.id, !.pw = args.pw,
          !.tx = ok,
          !.pc = IF ok THEN "get" ELSE "done",
          !.err = IF ok THEN "nil" ELSE "wrapped"]]
  /\ UNCHANGED <<phoneTable, authTable, signedUp, lastOK>>

\* a failure exit that returns without Rollback
FailWithoutRollback(rec, err, reason) ==
  [rec EXCEPT !.pc = "done", !.err = err, !.reason = reason, !.wr = "none"]

\* a failure exit: classify the error, Rollback, return
Fail(rec, err, reason) ==
  [rec EXCEPT !.pc = "done", !.err = err, !.reason = reason,
              !.wr = "none", !.nRollback = @ + 1]

\* the result of GetByPhoneNumber as the handlers switch on it
Got(getErr, ppc) ==
  IF getErr THEN "err" ELSE IF ppc.exists THEN "nil" ELSE "rowNotExistErr"

\* a step inside a handler: only this call's record changes
Step(c, next) ==
  /\ call' = [call EXCEPT ![c] = next]
  /\ UNCHANGED <<phoneTable, authTable, signedUp, lastOK, ops>>

NoArgs == [pn |-> "", code |-> 0, id |-> "", pw |-> ""]

\* parentPhoneCertifyRepository.GetByPhoneNumber: the committed row, or no row
GetByPhoneNumber(pn) == phoneTable[pn]

\* parentAuthRepository.GetByID: the committed rows with this login ID
GetByID(id) == {a \in authTable : a.ID = id}

\* another open transaction holds an uncommitted insert of this phone number
PendingPhoneStore(c, pn) ==
  \E d \in Calls \ {c} : call[d].wr = "store" /\ call[d].pn = pn

\* another open transaction holds an uncommitted insert with this ID or UUID
PendingAuthStore(c, pa) ==
  \E d \in Calls \ {c} :
    /\ call[d].wr = "auth"
    /\ (call[d].pa.ID = pa.ID \/ call[d].pa.UUID = pa.UUID)

\* ------------------------------------------------------------------------
\* SendCertifyCodeToPhone
\* ------------------------------------------------------------------------

SendCertifyCodeToPhone(c, pn, ok) ==
  BeginTx(c, "send", ok, [NoArgs EXCEPT !.pn = pn])

\* the in-use test that looks at certified rows only
PhoneInUseIfCertified(ppc) == ppc.ParentUUID.Valid /\ ppc.Certified.Bool

\* ppc.ParentUUID.Valid: the number is bound to an account
PhoneInUse(ppc) == ppc.ParentUUID.Valid

\* the row read, with a new code and Certified reset to a valid false
ResendRecord(ppc, code) ==
  [ppc EXCEPT !.CertifyCode = code, !.Certified = NullBoolFalse]

\* the record of a number seen for the first time: only the code is set
FirstRecord(code) == [NewParentPhoneCertify EXCEPT !.CertifyCode = code]

\* GetByPhoneNumber and the switch on its result, up to the repository write
SendGet(c, getErr, code) ==
  /\ call[c].op = "send" /\ call[c].pc = "get"
  /\ LET ppc == GetByPhoneNumber(call[c].pn)
         got == Got(getErr, ppc)
     IN Step(c,
       CASE got = "nil" ->
              IF PhoneInUse(ppc)
              THEN [Fail(call[c], "conflictErr", "phoneAlreadyInUse") EXCEPT
                      !.got = got, !.read = ppc]
              ELSE [call[c] EXCEPT
                      !.got = got, !.read = ppc, !.gen = code,
                      !.ppc = ResendRecord(ppc, code),
                      !.pc = "update"]
         [] got = "rowNotExistErr" ->
              [call[c] EXCEPT
                 !.got = got, !.read = ppc, !.gen = code,
                 !.ppc = FirstRecord(code),
                 !.pc = "store"]
         [] OTHER -> [Fail(call[c], "internalServerErr", "") EXCEPT !.got = got])

\* a write whose error is not looked at
SendWriteIgnoringError(c, ok) ==
  /\ call[c].op = "send" /\ call[c].pc \in {"update", "store"}
  /\ ok /\ call[c].pc = "store" =>
       /\ ~GetByPhoneNumber(call[c].pn).exists
       /\ ~PendingPhoneStore(c, call[c].pn)
  /\ LET counted ==
           IF call[c].pc = "update"
           THEN [call[c] EXCEPT !.nUpdate = @ + 1]
           ELSE [call[c] EXCEPT !.nStore = @ + 1]
     IN Step(c, [counted EXCEPT !.wrote = IF ok THEN "nil" ELSE "err",
                                !.wr = IF ok THEN call[c].pc ELSE "none",
                                !.pc = "sms"])

\* parentPhoneCertifyRepository.Update / Store of the record built by SendGet
SendWrite(c, ok) ==
  /\ call[c].op = "send" /\ call[c].pc \in {"update", "store"}
  /\ ok /\ call[c].pc = "store" =>
       /\ ~GetByPhoneNumber(call[c].pn).exists
       /\ ~PendingPhoneStore(c, call[c].pn)
  /\ LET counted ==
           IF call[c].pc = "update"
           THEN [call[c] EXCEPT !.nUpdate = @ + 1]
           ELSE [call[c] EXCEPT !.nStore = @ + 1]
     IN Step(c,
          IF ok
          THEN [counted EXCEPT !.wrote = "nil", !.wr = call[c].pc, !.pc = "sms"]
          ELSE Fail([counted EXCEPT !.wrote = "err"], "internalServerErr", ""))

\* an SMS step whose error is not looked at
SendSMSIgnoringError(c, ok) ==
  /\ call[c].op = "send" /\ call[c].pc = "sms"
  /\ Step(c, [call[c] EXCEPT !.nSMS = @ + 1,
                             !.smsCode = call[c].ppc.CertifyCode,
                             !.sms = IF ok THEN "nil" ELSE "err",
                             !.pc = "commit"])

\* messageAgency.SendSMSToOne with the code of the record just written
SendSMS(c, ok) ==
  /\ call[c].op = "send" /\ call[c].pc = "sms"
  /\ LET sent == [call[c] EXCEPT !.nSMS = @ + 1,
                                 !.smsCode = call[c].ppc.CertifyCode]
     IN Step(c,
          IF ok
          THEN [sent EXCEPT !.sms = "nil", !.pc = "commit"]
          ELSE Fail([sent EXCEPT !.sms = "err"], "internalServerErr", ""))

\* ------------------------------------------------------------------------
\* CertifyPhoneWithCode
\* ------------------------------------------------------------------------

CertifyPhoneWithCode(c, pn, code, ok) ==
  BeginTx(c, "certify", ok, [NoArgs EXCEPT !.pn = pn, !.code = code])

\* the certified test with the flag inverted
AlreadyCertifiedInverted(ppc) == ppc.Certified.Valid /\ ~ppc.Certified.Bool

\* ppc.Certified.Valid && ppc.Certified.Bool
AlreadyCertified(ppc) == ppc.Certified.Valid /\ ppc.Certified.Bool

\* a certified record that leaves the flag as read
CertifiedRecordAsRead(ppc) == ppc

\* ppc.Certified = sql.NullBool{Bool: true, Valid: true}
CertifiedRecord(ppc) == [ppc EXCEPT !.Certified = NullBoolTrue]

\* code != ppc.CertifyCode
CodeDiffers(code, ppc) == code # ppc.CertifyCode

\* GetByPhoneNumber and the switch on its result, up to the repository write
CertifyGet(c, getErr) ==
  /\ call[c].op = "certify" /\ call[c].pc = "get"
  /\ LET ppc == GetByPhoneNumber(call[c].pn)
         got == Got(getErr, ppc)
     IN Step(c,
       CASE got = "nil" ->
              IF AlreadyCertified(ppc)
              THEN [Fail(call[c], "conflictErr", "phoneAlreadyCertified") EXCEPT
                      !.got = got, !.read = ppc]
              ELSE IF CodeDiffers(call[c].code, ppc)
              THEN [Fail(call[c], "conflictErr", "incorrectCertifyCode") EXCEPT
                      !.got = got, !.read = ppc]
              ELSE [call[c] EXCEPT
                      !.got = got, !.read = ppc,
                      !.ppc = CertifiedRecord(ppc),
                      !.pc = "update"]
         [] got = "rowNotExistErr" ->
              [Fail(call[c], "notFoundErr", "") EXCEPT !.got = got]
         [] OTHER -> [Fail(call[c], "internalServerErr", "") EXCEPT !.got = got])

\* parentPhoneCertifyRepository.Update of the certified record
CertifyUpdate(c, ok) ==
  /\ call[c].op = "certify" /\ call[c].pc = "update"
  /\ LET counted == [call[c] EXCEPT !.nUpdate = @ + 1]
     IN Step(c,
          IF ok
          THEN [counted EXCEPT !.wrote = "nil", !.wr = "update", !.pc = "commit"]
          ELSE Fail([counted EXCEPT !.wrote = "err"], "internalServerErr", ""))

\* ------------------------------------------------------------------------
\* SignUpParent
\* ------------------------------------------------------------------------

SignUpParent(c, id, pw, pn, ok) ==
  BeginTx(c, "signup", ok, [pn |-> pn, code |-> 0, id |-> id, pw |-> pw])

\* the sign-up test that takes any set flag for a certification
SignUpAllowedIfFlagSet(got, ppc) == got = "nil" /\ ppc.Certified.Valid

\* err == nil && ppc.Certified.Valid && ppc.Certified.Bool
SignUpAllowed(got, ppc) ==
  got = "nil" /\ ppc.Certified.Valid /\ ppc.Certified.Bool

\* GetByPhoneNumber and the certified test
SignUpGet(c, getErr) ==
  /\ call[c].op = "signup" /\ call[c].pc = "get"
  /\ LET ppc == GetByPhoneNumber(call[c].pn)
         got == Got(getErr, ppc)
     IN Step(c,
       IF SignUpAllowed(got, ppc)
       THEN [call[c] EXCEPT !.got = got, !.read = ppc, !.pc = "hash"]
       ELSE IF got \in {"nil", "rowNotExistErr"}
         THEN [Fail(call[c], "conflictErr", "uncertifiedPhone") EXCEPT
                 !.got = got, !.read = ppc]
         ELSE [Fail(call[c], "internalServerErr", "") EXCEPT !.got = got])

\* results of parentAuthRepository.Store
StoreResults == {"nil", "invalidModelErr", "duplicateID", "duplicateOther", "other"}

\* what the parent-auth table can answer to Store(pa)
StoreResultPossible(c, pa, res) ==
  LET sameID == \E a \in authTable : a.ID = pa.ID
      sameUUID == \E a \in authTable : a.UUID = pa.UUID
  IN CASE res = "nil" -> ~sameID /\ ~sameUUID /\ ~PendingAuthStore(c, pa)
       [] res = "duplicateID" -> sameID
       [] res = "duplicateOther" -> sameUUID
       [] OTHER -> TRUE

\* a sign-up that keeps the password as given
HashedPWPlain(pw) == pw

\* pa.PW = GenerateHashWithMinSalt(pa.PW), the hashing having succeeded
HashedPW(pw) == GenerateHashWithMinSalt(pw)

\* a sign-up that always generates its UUID
ChosenUUIDRandom(avail, random) == random

\* pa.UUID = GetAvailableUUID(), or GenerateRandomUUID() on its error
ChosenUUID(avail, random) == IF avail # "" THEN avail ELSE random

\* the switch that takes every duplicate for a duplicate login ID
StoreFailureAnyDuplicate(res) ==
  IF res \in {"duplicateID", "duplicateOther"}
  THEN <<"conflictErr", "parentIDAlreadyInUse">>
  ELSE <<"internalServerErr", "">>

\* the switch on a failed parentAuthRepository.Store
StoreFailure(res) ==
  IF res = "duplicateID"
  THEN <<"conflictErr", "parentIDAlreadyInUse">>
  ELSE <<"internalServerErr", "">>

\* the certified branch, first statement: hashHandler.GenerateHashWithMinSalt
SignUpHash(c, hashOk) ==
  /\ call[c].op = "signup" /\ call[c].pc = "hash"
  /\ LET hashed == [call[c] EXCEPT !.nHash = @ + 1,
                                   !.hash = IF hashOk THEN "nil" ELSE "err"]
     IN Step(c,
          IF hashOk
          THEN [hashed EXCEPT !.pa = [ID |-> call[c].id,
                                      PW |-> HashedPW(call[c].pw),
                                      UUID |-> ""],
                              !.pc = "uuid"]
          ELSE Fail(hashed, "internalServerErr", ""))

\* parentAuthRepository.GetAvailableUUID and the fallback on its error
\* (avail = "" stands for GetAvailableUUID returning an error)
SignUpUUID(c, avail, random) ==
  /\ call[c].op = "signup" /\ call[c].pc = "uuid"
  /\ Step(c, [call[c] EXCEPT
                !.pa = [@ EXCEPT !.UUID = ChosenUUID(avail, random)],
                !.nGetUUID = @ + 1,
                !.avail = avail,
                !.random = IF avail # "" THEN "" ELSE random,
                !.pc = "store"])

\* parentAuthRepository.Store of the account and the switch on its result
SignUpStore(c, res) ==
  /\ call[c].op = "signup" /\ call[c].pc = "store"
  /\ StoreResultPossible(c, call[c].pa, res)
  /\ LET stored == [call[c] EXCEPT !.nAuthStore = @ + 1, !.stored = res]
     IN Step(c,
          IF res = "nil"
          THEN [stored EXCEPT !.wr = "auth", !.pc = "commit"]
          ELSE Fail(stored, StoreFailure(res)[1], StoreFailure(res)[2]))

\* ------------------------------------------------------------------------
\* LoginParentAuth
\* ------------------------------------------------------------------------

LoginParentAuth(c, id, pw, ok) ==
  BeginTx(c, "login", ok, [pn |-> "", code |-> 0, id |-> id, pw |-> pw])

\* the switch that takes a mismatch for an unexpected error
CompareFailureUnclassified(cmp) == <<"internalServerErr", "">>

\* the switch on a failed CompareHashAndPW: mismatch, or anything else
CompareFailure(cmp) ==
  IF cmp = "mismatch"
  THEN <<"conflictErr", "incorrectParentPW">>
  ELSE <<"internalServerErr", "">>

\* GetByID, then CompareHashAndPW and the switch on its result
\* (cmpErr: the comparison fails with an error that is not a mismatch)
LoginGet(c, getErr, cmpErr) ==
  /\ call[c].op = "login" /\ call[c].pc = "get"
  /\ LET found == GetByID(call[c].id) IN
     Step(c,
       IF getErr THEN [Fail(call[c], "internalServerErr", "") EXCEPT !.got = "err"]
       ELSE IF found = {}
       THEN [Fail(call[c], "conflictErr", "notExistParentID") EXCEPT
               !.got = "rowNotExistErr"]
       ELSE LET pa == CHOOSE a \in found : TRUE
                cmp == IF cmpErr THEN "err" ELSE CompareHashAndPW(pa.PW, call[c].pw)
                compared == [call[c] EXCEPT !.got = "nil", !.pa = pa, !.cmp = cmp,
                                            !.nCompare = @ + 1]
            IN IF cmp = "nil"
               THEN [compared EXCEPT !.pc = "token"]
               ELSE Fail(compared, CompareFailure(cmp)[1], CompareFailure(cmp)[2]))

\* a token step that returns the error of GenerateUUIDJWT
LoginTokenChecked(c, ok) ==
  /\ call[c].op = "login" /\ call[c].pc = "token"
  /\ LET issued == [call[c] EXCEPT
                      !.uuid = call[c].pa.UUID,
                      !.token = IF ok THEN GenerateUUIDJWT(call[c].pa.UUID) ELSE "",
                      !.nJWT = @ + 1,
                      !.jwt = IF ok THEN "nil" ELSE "err"]
     IN Step(c, IF ok
                THEN [issued EXCEPT !.pc = "commit"]
                ELSE Fail(issued, "internalServerErr", ""))

\* uuid = pa.UUID; GenerateUUIDJWT, whose error is dropped
LoginToken(c, ok) ==
  /\ call[c].op = "login" /\ call[c].pc = "token"
  /\ Step(c, [call[c] EXCEPT
                !.uuid = call[c].pa.UUID,
                !.token = IF ok THEN GenerateUUIDJWT(call[c].pa.UUID) ELSE "",
                !.nJWT = @ + 1,
                !.jwt = IF ok THEN "nil" ELSE "err",
                !.err = "nil",
                !.pc = "commit"])

\* ------------------------------------------------------------------------
\* txHandler.Commit at the tail of every handler, and the nil return
\* ------------------------------------------------------------------------

\* The handlers drop the error of Commit and of Rollback (_ = ...): the call
\* returns nil whatever Commit answered.  A transaction keeps its write until
\* a Commit that succeeds makes it the committed row; a Commit that fails
\* commits nothing, and Rollback drops the write.

Commit(c, ok) ==
  /\ call[c].pc = "commit"
  /\ call' = [call EXCEPT ![c] =
       [call[c] EXCEPT !.pc = "done", !.err = "nil", !.wr = "none",
                       !.nCommit = @ + 1,
                       !.commit = IF ok THEN "nil" ELSE "err",
                       !.prev = IF call[c].pn \in Phones
                                THEN lastOK[call[c].pn] ELSE "",
                       !.left = IF call[c].pn \notin Phones THEN NoRow
                                ELSE IF ok /\ call[c].wr \in {"store", "update"}
                                THEN call[c].ppc
                                ELSE phoneTable[call[c].pn]]]
  /\ phoneTable' =
       IF ok /\ call[c].wr \in {"store", "update"}
       THEN [phoneTable EXCEPT ![call[c].pn] = call[c].ppc]
       ELSE phoneTable
  /\ authTable' =
       IF ok /\ call[c].wr = "auth"
       THEN authTable \cup {call[c].pa}
       ELSE authTable
  /\ signedUp' =
       IF ok /\ call[c].wr = "auth"
       THEN signedUp \cup {<<call[c].pn, call[c].pa.ID>>}
       ELSE signedUp
  /\ lastOK' =
       IF call[c].op \in {"send", "certify"}
       THEN [lastOK EXCEPT ![call[c].pn] = call[c].op]
       ELSE lastOK
  /\ UNCHANGED ops

\* ------------------------------------------------------------------------
\* Next-state relation and specifications
\* ------------------------------------------------------------------------

Begins(c) ==
  \/ \E pn \in Phones, ok \in BOOLEAN : SendCertifyCodeToPhone(c, pn, ok)
  \/ \E pn \in Phones, code \in CertifyCodes, ok \in BOOLEAN :
       CertifyPhoneWithCode(c, pn, code, ok)
  \/ \E id \in IDs, pw \in PWs, pn \in Phones, ok \in BOOLEAN :
       SignUpParent(c, id, pw, pn, ok)
  \/ \E id \in IDs, pw \in PWs, ok \in BOOLEAN : LoginParentAuth(c, id, pw, ok)

Steps(c) ==
  \/ \E getErr \in BOOLEAN, code \in CertifyCodes : SendGet(c, getErr, code)
  \/ \E ok \in BOOLEAN : SendWrite(c, ok)
  \/ \E ok \in BOOLEAN : SendSMS(c, ok)
  \/ \E getErr \in BOOLEAN : CertifyGet(c, getErr)
  \/ \E ok \in BOOLEAN : CertifyUpdate(c, ok)
  \/ \E getErr \in BOOLEAN : SignUpGet(c, getErr)
  \/ \E hashOk \in BOOLEAN : SignUpHash(c, hashOk)
  \/ \E avail \in UUIDs \cup {""}, random \in UUIDs : SignUpUUID(c, avail, random)
  \/ \E res \in StoreResults : SignUpStore(c, res)
  \/ \E getErr \in BOOLEAN, cmpErr \in BOOLEAN : LoginGet(c, getErr, cmpErr)
  \/ \E ok \in BOOLEAN : LoginToken(c, ok)
  \/ \E ok \in BOOLEAN : Commit(c, ok)

\* requests are served one at a time
Next == \E c \in Calls : (Sequential(c) /\ Begins(c)) \/ Steps(c)

Spec == Init /\ [][Next]_vars

\* the same service over a table that holds a bound number
SpecBound == InitBound /\ [][Next]_vars

\* ------------------------------------------------------------------------
\* Concurrent requests over a store without isolation
\* ------------------------------------------------------------------------
\* Two requests are in flight at once and the store gives their transactions
\* no isolation: a Store or Update is in the table as soon as it returns, and
\* Commit only ends the transaction.  Every collaborator succeeds, so that no
\* transaction is rolled back after it has written.

\* call d has read the row of pn and has not returned yet
Between(d, pn) ==
  /\ call[d].op \in {"send", "certify"} /\ call[d].pn = pn
  /\ call[d].pc \in {"update", "store", "sms", "commit"}

\* Store or Update of the whole record, visible to every transaction at once;
\* a Store on a number that has a row by now fails on the primary key
WriteThrough(c) ==
  /\ call[c].op \in {"send", "certify"} /\ call[c].pc \in {"update", "store"}
  /\ LET pn == call[c].pn
         dup == call[c].pc = "store" /\ phoneTable[pn].exists
         counted ==
           IF call[c].pc = "update"
           THEN [call[c] EXCEPT !.nUpdate = @ + 1]
           ELSE [call[c] EXCEPT !.nStore = @ + 1]
         written ==
           [counted EXCEPT !.wrote = "nil",
                           !.pc = IF call[c].op = "send" THEN "sms" ELSE "commit"]
     IN /\ call' = [d \in Calls |->
             IF d = c
             THEN IF dup
                  THEN Fail([counted EXCEPT !.wrote = "err"], "internalServerErr", "")
                  ELSE written
             ELSE IF ~dup /\ Between(d, pn)
                  THEN [call[d] EXCEPT !.raced = TRUE]
                  ELSE call[d]]
        /\ phoneTable' =
             IF dup THEN phoneTable
             ELSE [phoneTable EXCEPT ![pn] = call[c].ppc]
        /\ UNCHANGED <<authTable, signedUp, lastOK, ops>>

\* a request is taken by the lowest free slot
RaceBegins(c) ==
  /\ \A d \in Calls : d < c => ~Free(d)
  /\ \/ \E pn \in Phones : SendCertifyCodeToPhone(c, pn, TRUE)
     \/ \E pn \in Phones, code \in CertifyCodes :
          CertifyPhoneWithCode(c, pn, code, TRUE)

RaceSteps(c) ==
  \/ \E code \in CertifyCodes : SendGet(c, FALSE, code)
  \/ CertifyGet(c, FALSE)
  \/ WriteThrough(c)
  \/ SendSMS(c, TRUE)
  \/ Commit(c, TRUE)

NextRace == \E c \in Calls : RaceBegins(c) \/ RaceSteps(c)

SpecRace == Init /\ [][NextRace]_vars

\* ------------------------------------------------------------------------
\* Properties
\* ------------------------------------------------------------------------

Done(c, op) == call[c].op = op /\ call[c].pc = "done"

Resolutions(c) == call[c].nCommit + call[c].nRollback

IsCertified(row) == row.exists /\ row.Certified.Valid /\ row.Certified.Bool

\* C1: a call whose BeginTx succeeded has called exactly one of Commit and
\* Rollback, exactly once, by the time it returns; before that, and when
\* BeginTx failed, it has called neither.
C1_OneResolution ==
  \A c \in Calls :
    /\ Resolutions(c) <= 1
    /\ call[c].pc = "done" /\ call[c].tx => Resolutions(c) = 1
    /\ call[c].pc = "done" /\ call[c].err = "nil" => call[c].nCommit = 1
    /\ call[c].pc = "done" /\ call[c].tx /\ call[c].err # "nil" =>
         call[c].nRollback = 1
    /\ call[c].pc # "done" \/ ~call[c].tx => Resolutions(c) = 0

\* a sign-up that failed on a duplicate login ID has rolled back once
C1_Witness ==
  \E c \in Calls :
    /\ Done(c, "signup") /\ call[c].reason = "parentIDAlreadyInUse"
    /\ call[c].nRollback = 1 /\ call[c].nCommit = 0

\* C2: one phone number maps to at most one parent account: no two committed
\* sign-ups name the same phone number.
C2_OneAccountPerPhone ==
  \A p \in Phones : Cardinality({pr \in signedUp : pr[1] = p}) <= 1

\* C3: a sign-up calls Store on the parent-auth table, and succeeds, only if
\* the row of its phone number exists with certified = true; otherwise it
\* fails and Store is never called.
C3_SignUpOnlyWhenCertified ==
  \A c \in Calls :
    call[c].op = "signup" =>
      LET certified == IsCertified(phoneTable[call[c].pn]) IN
        /\ call[c].nAuthStore > 0 \/ call[c].wr = "auth" => certified
        /\ Done(c, "signup") /\ call[c].err = "nil" =>
             certified /\ call[c].nAuthStore = 1 /\ call[c].nCommit = 1
        /\ Done(c, "signup") /\ ~certified =>
             /\ call[c].nAuthStore = 0 /\ call[c].nCommit = 0
             /\ call[c].err # "nil" /\ call[c].pa \notin authTable

\* a sign-up on a certified number has stored its account and committed
C3_Witness ==
  \E c \in Calls :
    /\ Done(c, "signup") /\ call[c].err = "nil"
    /\ call[c].pa \in authTable
    /\ IsCertified(phoneTable[call[c].pn])

\* C4: a successful send to a number with no row calls Store once, with a
\* new record whose certified flag is a set false (Valid, not NULL), and
\* sends one SMS.
C4_FirstSendStoresFalse ==
  \A c \in Calls :
    Done(c, "send") /\ call[c].err = "nil" /\ call[c].got = "rowNotExistErr" =>
      /\ call[c].nStore = 1 /\ call[c].nUpdate = 0 /\ call[c].nSMS = 1
      /\ call[c].ppc.exists
      /\ call[c].ppc.Certified = NullBoolFalse

\* C5: a send to a number whose row is bound to an account returns
\* Conflict(phoneAlreadyInUse) straight after the read: no Store, no Update,
\* no SMS, one Rollback, no Commit.
C5_BoundPhoneConflict ==
  \A c \in Calls :
    /\ call[c].op = "send" /\ call[c].got = "nil"
    /\ phoneTable[call[c].pn].ParentUUID.Valid
    => /\ call[c].pc = "done"
       /\ call[c].err = "conflictErr" /\ call[c].reason = "phoneAlreadyInUse"
       /\ call[c].nStore = 0 /\ call[c].nUpdate = 0 /\ call[c].nSMS = 0
       /\ call[c].nRollback = 1 /\ call[c].nCommit = 0

\* a send to a bound, not certified number has been refused
C5_Witness ==
  \E c \in Calls :
    /\ Done(c, "send") /\ call[c].reason = "phoneAlreadyInUse"
    /\ phoneTable[call[c].pn].ParentUUID.Valid
    /\ ~phoneTable[call[c].pn].Certified.Bool

\* C6: a send to a number whose row exists and is not bound never calls
\* Store; it calls Update with the row read, the newly generated code and
\* certified = false, whatever the flag was; once committed, that is the row.
C6_ResendUpdatesAndResets ==
  \A c \in Calls :
    call[c].op = "send" /\ call[c].got = "nil" /\ ~call[c].read.ParentUUID.Valid
    => /\ call[c].nStore = 0 /\ call[c].wr # "store"
       /\ call[c].gen \in CertifyCodes
       /\ call[c].ppc = [call[c].read EXCEPT !.CertifyCode = call[c].gen,
                                             !.Certified = NullBoolFalse]
       /\ call[c].pc \in {"sms", "commit"} =>
            call[c].nUpdate = 1 /\ call[c].wr = "update"
       /\ call[c].pc = "done" /\ call[c].err = "nil" =>
            /\ call[c].nUpdate = 1
            /\ phoneTable[call[c].pn] = call[c].ppc
            /\ phoneTable[call[c].pn].Certified = NullBoolFalse

\* C7: certify on an existing, not certified row: with the stored code it
\* calls Update once with certified = true and, Update succeeding, commits
\* and returns nil; with another code it returns
\* Conflict(incorrectCertifyCode), calls no Update and leaves the row as read.
C7_CertifyByCode ==
  \A c \in Calls :
    Done(c, "certify") /\ call[c].got = "nil" /\ ~IsCertified(call[c].read)
    => IF call[c].code = call[c].read.CertifyCode
       THEN /\ call[c].nUpdate = 1
            /\ call[c].ppc = [call[c].read EXCEPT !.Certified = NullBoolTrue]
            /\ call[c].err \in {"nil", "internalServerErr"}
            /\ call[c].err = "nil" =>
                 /\ call[c].nCommit = 1
                 /\ phoneTable[call[c].pn] = call[c].ppc
                 /\ IsCertified(phoneTable[call[c].pn])
            /\ call[c].err # "nil" => phoneTable[call[c].pn] = call[c].read
       ELSE /\ call[c].err = "conflictErr"
            /\ call[c].reason = "incorrectCertifyCode"
            /\ call[c].nUpdate = 0 /\ call[c].nCommit = 0
            /\ call[c].nRollback = 1
            /\ phoneTable[call[c].pn] = call[c].read
            /\ ~IsCertified(phoneTable[call[c].pn])

\* C8: certify on a row that is already certified returns
\* Conflict(phoneAlreadyCertified) straight after the read, for the stored
\* code as for any other, and calls no Update.
C8_CertifiedAlwaysConflict ==
  \A c \in Calls :
    call[c].op = "certify" /\ call[c].got = "nil" /\ IsCertified(call[c].read)
    => /\ call[c].pc = "done"
       /\ call[c].err = "conflictErr"
       /\ call[c].reason = "phoneAlreadyCertified"
       /\ call[c].nUpdate = 0 /\ call[c].nCommit = 0 /\ call[c].nRollback = 1
       /\ phoneTable[call[c].pn] = call[c].read

\* a certify with the stored code has been refused on a certified row
C8_Witness ==
  \E c \in Calls :
    /\ Done(c, "certify") /\ call[c].reason = "phoneAlreadyCertified"
    /\ IsCertified(phoneTable[call[c].pn])
    /\ call[c].code = phoneTable[call[c].pn].CertifyCode

\* C9: a login whose password matches the stored hash returns nil, a
\* non-empty UUID and a non-empty token, whatever GenerateUUIDJWT returns.
C9_LoginReturnsToken ==
  \A c \in Calls :
    Done(c, "login") /\ call[c].cmp = "nil" =>
      call[c].err = "nil" /\ call[c].uuid # "" /\ call[c].token # ""

\* C10: a login with an existing ID and a password that is not the one
\* hashed returns Conflict(incorrectParentPW) with empty uuid and token,
\* never calls GenerateUUIDJWT, and rolls back.
C10_WrongPassword ==
  \A c \in Calls :
    /\ call[c].op = "login" /\ call[c].got = "nil" /\ call[c].cmp # "err"
    /\ \E a \in authTable :
         a.ID = call[c].id /\ a.PW # GenerateHashWithMinSalt(call[c].pw)
    => /\ call[c].pc = "done"
       /\ call[c].err = "conflictErr" /\ call[c].reason = "incorrectParentPW"
       /\ call[c].uuid = "" /\ call[c].token = ""
       /\ call[c].nJWT = 0 /\ call[c].nRollback = 1 /\ call[c].nCommit = 0

\* a login with the wrong password has been refused
C10_Witness ==
  \E c \in Calls :
    /\ Done(c, "login") /\ call[c].cmp = "mismatch"
    /\ call[c].nCompare = 1 /\ call[c].reason = "incorrectParentPW"
    /\ \E a \in authTable : a.ID = call[c].id

\* the terminal outcomes of a call
Success(c) ==
  call[c].err = "nil" /\ call[c].nCommit = 1 /\ call[c].nRollback = 0

ClassifiedFailure(c) ==
  /\ call[c].err \in {"notFoundErr", "conflictErr"}
  /\ call[c].nRollback = 1 /\ call[c].nCommit = 0

UnclassifiedFailure(c) ==
  /\ call[c].err = "internalServerErr"
  /\ call[c].nRollback = 1 /\ call[c].nCommit = 0

BeginFailure(c) ==
  /\ call[c].err = "wrapped" /\ ~call[c].tx
  /\ call[c].nRollback = 0 /\ call[c].nCommit = 0

\* C11 (as claimed): every call that has returned ended as a success with a
\* commit, as a NotFound or Conflict with a rollback, or as an
\* internalServerErr with a rollback; a failed BeginTx included.
C11_ThreeOutcomes ==
  \A c \in Calls :
    call[c].pc = "done" =>
      Success(c) \/ ClassifiedFailure(c) \/ UnclassifiedFailure(c)

\* C11 (amended): a call whose BeginTx succeeded ends in exactly one of the
\* three outcomes; a call whose BeginTx failed returns the plain wrapped
\* error, which is no internalServerErr, and calls neither Commit nor
\* Rollback.
C11_FourOutcomes ==
  \A c \in Calls :
    call[c].pc = "done" =>
      /\ call[c].tx =>
           Success(c) \/ ClassifiedFailure(c) \/ UnclassifiedFailure(c)
      /\ ~call[c].tx => BeginFailure(c)
      /\ (call[c].err = "conflictErr") = (call[c].reason # "")

\* a login whose BeginTx failed has returned the wrapped error
C11_Witness ==
  \E c \in Calls :
    /\ Done(c, "login") /\ ~call[c].tx /\ call[c].err = "wrapped"
    /\ call[c].uuid = "" /\ call[c].token = ""

\* C12: a send whose SMS fails returns internalServerErr after one Rollback
\* and no Commit, the write before it having succeeded; the committed row of
\* the number is the one the call read (none, if there was none).
C12_SMSFailureRollsBack ==
  \A c \in Calls :
    call[c].op = "send" /\ call[c].sms = "err" =>
      /\ call[c].pc = "done" /\ call[c].err = "internalServerErr"
      /\ call[c].wrote = "nil"
      /\ call[c].nRollback = 1 /\ call[c].nCommit = 0
      /\ call[c].wr = "none"
      /\ phoneTable[call[c].pn] = call[c].read

\* a resend on a certified row failed at the SMS and the row is still certified
C12_Witness ==
  \E c \in Calls :
    /\ Done(c, "send") /\ call[c].sms = "err" /\ call[c].nUpdate = 1
    /\ IsCertified(phoneTable[call[c].pn])
    /\ call[c].ppc # phoneTable[call[c].pn]

\* C13: a login whose GenerateUUIDJWT fails after a successful comparison
\* still returns a nil error with the account's UUID, and commits.
C13_TokenErrorDropped ==
  \A c \in Calls :
    call[c].op = "login" /\ call[c].jwt = "err" =>
      /\ call[c].cmp = "nil"
      /\ call[c].err = "nil"
      /\ call[c].uuid = call[c].pa.UUID /\ call[c].uuid \in UUIDs
      /\ call[c].pc \in {"commit", "done"}
      /\ call[c].nRollback = 0
      /\ call[c].pc = "done" => call[c].nCommit = 1

\* a login has returned nil and committed though no token was issued
C13_Witness ==
  \E c \in Calls :
    /\ Done(c, "login") /\ call[c].jwt = "err"
    /\ call[c].err = "nil" /\ call[c].nCommit = 1 /\ call[c].token = ""

\* C14: in a sign-up on a certified number, a Store that fails on a duplicate
\* login ID returns Conflict(parentIDAlreadyInUse); a duplicate of another
\* key, an invalid model or any other error returns internalServerErr; each
\* after one Rollback, with no Commit and no write left to commit.
C14_StoreErrorClasses ==
  \A c \in Calls :
    call[c].op = "signup" /\ call[c].stored \notin {"", "nil"} =>
      /\ IsCertified(call[c].read)
      /\ call[c].pc = "done"
      /\ call[c].stored = "duplicateID" =>
           call[c].err = "conflictErr" /\ call[c].reason = "parentIDAlreadyInUse"
      /\ call[c].stored \in {"duplicateOther", "invalidModelErr", "other"} =>
           call[c].err = "internalServerErr" /\ call[c].reason = ""
      /\ call[c].nRollback = 1 /\ call[c].nCommit = 0 /\ call[c].wr = "none"

\* a sign-up has failed on a duplicate UUID with an internalServerErr
C14_Witness ==
  \E c \in Calls :
    /\ Done(c, "signup") /\ call[c].stored = "duplicateOther"
    /\ call[c].err = "internalServerErr"
    /\ \A a \in authTable : a.ID # call[c].id

\* C16: every stored account holds the hash of the password given, never
\* the password; a sign-up whose hashing fails returns internalServerErr
\* after one Rollback and calls neither GetAvailableUUID nor Store.
C16_PasswordHashed ==
  /\ \A a \in authTable :
       a.PW \notin PWs /\ \E pw \in PWs : a.PW = GenerateHashWithMinSalt(pw)
  /\ \A c \in Calls :
       call[c].op = "signup" =>
         /\ call[c].nAuthStore = 1 =>
              /\ call[c].hash = "nil"
              /\ call[c].pa.PW = GenerateHashWithMinSalt(call[c].pw)
              /\ call[c].pa.PW # call[c].pw
         /\ call[c].hash = "err" =>
              /\ call[c].pc = "done" /\ call[c].err = "internalServerErr"
              /\ call[c].nRollback = 1 /\ call[c].nCommit = 0
              /\ call[c].nGetUUID = 0 /\ call[c].nAuthStore = 0

\* a committed account holds the hash of the password of its sign-up
C16_Witness ==
  \E c \in Calls :
    /\ Done(c, "signup") /\ call[c].err = "nil" /\ call[c].nHash = 1
    /\ \E a \in authTable :
         a.ID = call[c].id /\ a.PW = GenerateHashWithMinSalt(call[c].pw)

\* C17: an error of GetAvailableUUID never fails a sign-up: the account gets
\* the generated UUID and Store is still called; when GetAvailableUUID
\* succeeds Store is called with the UUID it returned, and that account is
\* in the table once Commit has succeeded.
C17_UUIDFallback ==
  \A c \in Calls :
    call[c].op = "signup" /\ call[c].nGetUUID = 1 =>
      /\ call[c].pc \in {"store", "commit", "done"}
      /\ call[c].pc = "store" => call[c].nAuthStore = 0
      /\ call[c].pc # "store" => call[c].nAuthStore = 1 /\ call[c].stored # ""
      /\ call[c].avail = "" =>
           /\ call[c].random \in UUIDs /\ call[c].pa.UUID = call[c].random
           /\ call[c].stored = "nil" => call[c].err = "nil"
      /\ call[c].avail # "" =>
           call[c].random = "" /\ call[c].pa.UUID = call[c].avail
      /\ call[c].pc = "done" /\ call[c].err = "nil" /\ call[c].commit = "nil" =>
           call[c].pa \in authTable

\* a sign-up whose GetAvailableUUID failed has committed a generated UUID
C17_Witness ==
  \E c \in Calls :
    /\ Done(c, "signup") /\ call[c].err = "nil" /\ call[c].avail = ""
    /\ \E a \in authTable : a.ID = call[c].id /\ a.UUID = call[c].random

\* C19: a send calls SendSMSToOne at most once, only after its Store or
\* Update returned nil and before Commit, with the code it wrote; a call
\* that returns a Conflict or fails at the read or the write sends nothing.
C19_SMSAfterWrite ==
  \A c \in Calls :
    call[c].op = "send" =>
      /\ call[c].nSMS <= 1
      /\ call[c].nSMS = 1 =>
           /\ call[c].wrote = "nil"
           /\ call[c].nStore + call[c].nUpdate = 1
           /\ call[c].smsCode = call[c].ppc.CertifyCode
           /\ call[c].smsCode = call[c].gen
      /\ call[c].pc = "sms" =>
           call[c].nSMS = 0 /\ call[c].nCommit = 0 /\ call[c].wrote = "nil"
      /\ call[c].pc = "commit" => call[c].nSMS = 1 /\ call[c].nCommit = 0
      /\ call[c].nCommit = 1 => call[c].nSMS = 1 /\ call[c].sms = "nil"
      /\ call[c].err = "conflictErr" \/ call[c].wrote = "err"
           \/ call[c].got = "err" => call[c].nSMS = 0

\* the SMS of a first send is out and Commit is still to come
C19_Witness ==
  \E c \in Calls :
    /\ call[c].op = "send" /\ call[c].pc = "commit"
    /\ call[c].nStore = 1 /\ call[c].nSMS = 1 /\ call[c].nCommit = 0
    /\ call[c].smsCode = call[c].ppc.CertifyCode
    /\ ~phoneTable[call[c].pn].exists

\* C18: in a sequential history, when a sign-up returns nil the last send or
\* certify that returned nil for its number is a certify; when a certify
\* returns nil a send for its number has returned nil before it.
C18_SendCertifySignUp ==
  \A c \in Calls :
    call[c].pc = "done" /\ call[c].err = "nil" =>
      /\ call[c].op = "signup" => call[c].prev = "certify"
      /\ call[c].op = "certify" => call[c].prev \in {"send", "certify"}

\* C15: without isolation a certify and a send on one number that interleave
\* between their reads and their writes lose an update.  A certify that
\* returned nil leaves the row certified with the code it compared unless
\* another call wrote the row between its read and its return.
C15_LostOnlyWhenInterleaved ==
  \A c \in Calls :
    Done(c, "certify") /\ call[c].err = "nil" /\ ~call[c].raced =>
      IsCertified(call[c].left) /\ call[c].left.CertifyCode = call[c].code

\* both calls returned nil, the certify last, and the row is not certified
C15_Witness ==
  \E c \in Calls, d \in Calls :
    /\ Done(c, "certify") /\ call[c].err = "nil" /\ call[c].raced
    /\ Done(d, "send") /\ call[d].err = "nil" /\ call[d].pn = call[c].pn
    /\ lastOK[call[c].pn] = "certify"
    /\ phoneTable[call[c].pn] = call[c].left
    /\ phoneTable[call[c].pn] = call[d].ppc
    /\ ~IsCertified(phoneTable[call[c].pn])

====
